---- MODULE Spec2Model ----
(***************************************************************************)
(* GitHub Copilot authentication manager (CopilotAuthManager) of cc-switch *)
(* src-tauri/src/proxy/providers/copilot_auth.rs, and the Tauri commands   *)
(* of src-tauri/src/commands/copilot.rs.                                   *)
(*                                                                         *)
(* The manager's three cached fields, the storage file and the clock are   *)
(* the state.  Every public operation is one action; what the network and  *)
(* the file system answer is an input of the action.  `op` records the     *)
(* last operation: its name, its result, the requests it sent and the      *)
(* responses it consumed.  In SpecTasks the commands run concurrently,     *)
(* one await at a time, and `tasks` holds where each command is.           *)
(***************************************************************************)
EXTENDS Integers, Sequences, FiniteSets, TLC

VARIABLES
    github_token,   \* Option<String>: the GitHub OAuth (provider) token
    copilot_token,  \* Option<CopilotToken>: the Copilot (downstream) token
    github_user,    \* Option<GitHubUser>
    storage_file,   \* Option<file content>: the file at storage_path
    now,            \* chrono::Utc::now().timestamp()
    op,             \* the last operation: what it was given and what it returned
    tasks           \* the commands in flight: where each is and the locks it holds

vars == <<github_token, copilot_token, github_user, storage_file, now, op, tasks>>

----------------------------------------------------------------------------
(* Bounds of the model *)

\* the clock runs from 0 to MaxTime
MaxTime == 1
\* the server issues tokens that expire up to MaxSlack seconds after the
\* refresh buffer, counted from time 0
MaxSlack == 0
\* width in bits of the integers that stand for i64
IntBits == 8
\* the longest model catalog the server returns
MaxCatalog == 1
\* the longest model catalog where fetch_models is checked on its own
MaxModels == 3

----------------------------------------------------------------------------
(* Rust values *)

None == [tag |-> "None"]
Some(v) == [tag |-> "Some", v |-> v]
IsSome(o) == o.tag = "Some"

MinInt == -(2 ^ (IntBits - 1))
MaxInt == 2 ^ (IntBits - 1) - 1
\* two's complement wrap of a value to IntBits bits
Wrap(x) == ((x - MinInt) % (2 ^ IntBits)) + MinInt

TOKEN_REFRESH_BUFFER_SECONDS == 60

UNAUTHORIZED == 401
FORBIDDEN == 403

Ok == "Ok"

\* what the servers may hand out
GitHubTokens == {"gh1", "gh2"}
JwtTokens == {"jwt1", "jwt2"}
DeviceCodes == {"dc1"}
Logins == {"alice", "bob"}
ExpiryValues == (TOKEN_REFRESH_BUFFER_SECONDS - 1) .. (TOKEN_REFRESH_BUFFER_SECONDS + MaxSlack)

CopilotToken(token, expires_at) == [token |-> token, expires_at |-> expires_at]
GitHubUser(login) == [login |-> login]

\* the three lock-guarded fields of the manager
Manager(gt, ct, gu) == [github_token |-> gt, copilot_token |-> ct, github_user |-> gu]

----------------------------------------------------------------------------
(* CopilotToken::is_expiring_soon: self.expires_at - now < 60 on i64;     *)
(* the subtraction wraps in a release build.                               *)

i64_sub_overflows(a, b) == a - b < MinInt \/ a - b > MaxInt

is_expiring_soon(token, t) ==
    Wrap(token.expires_at - t) < TOKEN_REFRESH_BUFFER_SECONDS

----------------------------------------------------------------------------
(* The storage file: serde_json text of CopilotAuthStore *)

CopilotAuthStore(gt, at) == [github_token |-> gt, authenticated_at |-> at]

\* one lexical token of the JSON text
Tok(kind, s, n) == [kind |-> kind, s |-> s, n |-> n]
LBrace == Tok("{", "", 0)
RBrace == Tok("}", "", 0)
JsonString(key, s) == <<Tok("key", key, 0), Tok("string", s, 0)>>
JsonNumber(key, n) == <<Tok("key", key, 0), Tok("number", "", n)>>

json_opt_string(key, o) ==
    IF IsSome(o) THEN JsonString(key, o.v) ELSE <<Tok("key", key, 0), Tok("null", "", 0)>>
json_opt_number(key, o) ==
    IF IsSome(o) THEN JsonNumber(key, o.v) ELSE <<Tok("key", key, 0), Tok("null", "", 0)>>

\* serde_json::to_string_pretty(&store)
to_string_pretty(store) ==
    <<LBrace>> \o json_opt_string("github_token", store.github_token)
               \o json_opt_number("authenticated_at", store.authenticated_at)
               \o <<RBrace>>

\* the value of `key` in the text of an object: its index, 0 when missing
key_index(text, key) ==
    LET hits == {i \in 1 .. Len(text) : text[i].kind = "key" /\ text[i].s = key}
    IN IF hits = {} THEN 0 ELSE CHOOSE i \in hits : \A j \in hits : i <= j

json_well_formed(text) ==
    /\ Len(text) >= 2
    /\ text[1] = LBrace
    /\ text[Len(text)] = RBrace
    /\ Len(text) % 2 = 0
    /\ \A i \in 2 .. Len(text) - 1 :
          IF i % 2 = 0 THEN text[i].kind = "key"
          ELSE text[i].kind \in {"null", "string", "number"}

\* an Option<T> field: a missing key and null are None, another kind is an error
json_field(text, key, kind) ==
    LET i == key_index(text, key)
    IN IF i = 0 \/ text[i + 1].kind = "null" THEN [ok |-> TRUE, v |-> None]
       ELSE IF text[i + 1].kind # kind THEN [ok |-> FALSE, v |-> None]
       ELSE [ok |-> TRUE,
             v |-> Some(IF kind = "string" THEN text[i + 1].s ELSE text[i + 1].n)]

\* serde_json::from_str::<CopilotAuthStore>(&content)
from_str(text) ==
    IF ~json_well_formed(text) THEN [ok |-> FALSE, store |-> CopilotAuthStore(None, None)]
    ELSE LET gt == json_field(text, "github_token", "string")
             at == json_field(text, "authenticated_at", "number")
         IN [ok |-> gt.ok /\ at.ok, store |-> CopilotAuthStore(gt.v, at.v)]

\* what std::fs::write leaves behind when it fails after creating the file
TruncatedFile == << >>

----------------------------------------------------------------------------
(* What the network answers *)

is_success(status) == status \in 200 .. 299

\* POST GITHUB_OAUTH_TOKEN_URL: send() may fail, json() may fail, else a
\* GitHubOAuthResponse
OAuthErrors == {"authorization_pending", "slow_down", "expired_token",
                "access_denied", "unsupported_grant_type"}
OAuthResponse(transport, parses, error, access_token) ==
    [transport |-> transport, parses |-> parses, error |-> error,
     access_token |-> access_token]
OAuthResponses ==
    {OAuthResponse("error", FALSE, None, None), OAuthResponse("ok", FALSE, None, None)}
    \cup {OAuthResponse("ok", TRUE, Some(s), None) : s \in OAuthErrors}
    \cup {OAuthResponse("ok", TRUE, Some("authorization_pending"), Some("gh1"))}
    \cup {OAuthResponse("ok", TRUE, None, a) : a \in {None} \cup {Some(g) : g \in GitHubTokens}}

\* GET GITHUB_USER_URL
UserResponse(transport, status, parses, login) ==
    [transport |-> transport, status |-> status, parses |-> parses, login |-> login]
UserResponses ==
    {UserResponse("error", 0, FALSE, ""), UserResponse("ok", UNAUTHORIZED, FALSE, "")}
    \cup {UserResponse("ok", 200, TRUE, l) : l \in Logins}

\* GET COPILOT_TOKEN_URL
TokenResponse(transport, status, parses, token, expires_at) ==
    [transport |-> transport, status |-> status, parses |-> parses,
     token |-> token, expires_at |-> expires_at]
TokenResponses ==
    {TokenResponse("error", 0, FALSE, "", 0), TokenResponse("ok", 200, FALSE, "", 0)}
    \cup {TokenResponse("ok", s, FALSE, "", 0) : s \in {UNAUTHORIZED, FORBIDDEN, 500}}
    \cup {TokenResponse("ok", 200, TRUE, j, e) : j \in JwtTokens, e \in ExpiryValues}

\* what the file system does with a write or a removal
WriteOutcomes == {"ok", "create_dir_failed", "write_failed_truncated"}
RemoveOutcomes == {"ok", "failed"}

\* requests sent by one operation
NoCalls == [oauth |-> 0, user |-> 0, exchange |-> 0, other |-> 0]
Calls(o, u, e) == [oauth |-> o, user |-> u, exchange |-> e, other |-> 0]

\* POST GITHUB_DEVICE_CODE_URL, GET COPILOT_USAGE_URL: status and whether the
\* body parses
PlainResponse(transport, status, parses) ==
    [transport |-> transport, status |-> status, parses |-> parses]
PlainResponses ==
    {PlainResponse("error", 0, FALSE), PlainResponse("ok", UNAUTHORIZED, FALSE),
     PlainResponse("ok", 500, FALSE), PlainResponse("ok", 200, FALSE),
     PlainResponse("ok", 200, TRUE)}

\* GET COPILOT_MODELS_URL: a CopilotModelsResponse
CopilotModelsResponseItem(id, enabled) == [id |-> id, model_picker_enabled |-> enabled]
ModelItems == {CopilotModelsResponseItem("a", TRUE), CopilotModelsResponseItem("b", FALSE),
               CopilotModelsResponseItem("c", TRUE)}
Catalogs == UNION {[1 .. n -> ModelItems] : n \in 0 .. MaxCatalog}
ModelsResponse(transport, status, parses, data) ==
    [transport |-> transport, status |-> status, parses |-> parses, data |-> data]
ModelsResponses ==
    {ModelsResponse("error", 0, FALSE, << >>), ModelsResponse("ok", 500, FALSE, << >>),
     ModelsResponse("ok", 200, FALSE, << >>)}
    \cup {ModelsResponse("ok", 200, TRUE, c) : c \in Catalogs}

----------------------------------------------------------------------------
(* CopilotAuthManager *)

\* fetch_user_info(&self)
fetch_user_info(m, resp) ==
    IF ~IsSome(m.github_token)
    THEN [m |-> m, res |-> "GitHubTokenInvalid", sent |-> 0]
    ELSE IF resp.transport = "error"
    THEN [m |-> m, res |-> "NetworkError", sent |-> 1]
    ELSE IF ~is_success(resp.status)
    THEN [m |-> m, res |-> "GitHubTokenInvalid", sent |-> 1]
    ELSE IF ~resp.parses
    THEN [m |-> m, res |-> "ParseError", sent |-> 1]
    ELSE [m |-> [m EXCEPT !.github_user = Some(GitHubUser(resp.login))],
          res |-> Ok, sent |-> 1]

\* the error fetch_copilot_token returns for a response, Ok for a usable one
exchange_result(resp) ==
    IF resp.transport = "error" THEN "NetworkError"
    ELSE IF resp.status = UNAUTHORIZED THEN "GitHubTokenInvalid"
    ELSE IF resp.status = FORBIDDEN THEN "NoCopilotSubscription"
    ELSE IF ~is_success(resp.status) THEN "CopilotTokenFetchFailed"
    ELSE IF ~resp.parses THEN "ParseError"
    ELSE Ok

\* mutant: the token of a 2xx response is parsed but never cached
fetch_copilot_token_not_cached(m, resp) ==
    IF ~IsSome(m.github_token)
    THEN [m |-> m, res |-> "GitHubTokenInvalid", sent |-> 0]
    ELSE [m |-> m, res |-> exchange_result(resp), sent |-> 1]

\* mutant: a failed exchange drops the cached Copilot token
fetch_copilot_token_clears_on_error(m, resp) ==
    IF ~IsSome(m.github_token)
    THEN [m |-> m, res |-> "GitHubTokenInvalid", sent |-> 0]
    ELSE IF exchange_result(resp) # Ok
    THEN [m |-> [m EXCEPT !.copilot_token = None], res |-> exchange_result(resp),
          sent |-> 1]
    ELSE [m |-> [m EXCEPT !.copilot_token =
                              Some(CopilotToken(resp.token, resp.expires_at))],
          res |-> Ok, sent |-> 1]

\* mutant: the request is sent without looking at github_token
fetch_copilot_token_without_precondition(m, resp) ==
    IF exchange_result(resp) # Ok
    THEN [m |-> m, res |-> exchange_result(resp), sent |-> 1]
    ELSE [m |-> [m EXCEPT !.copilot_token =
                              Some(CopilotToken(resp.token, resp.expires_at))],
          res |-> Ok, sent |-> 1]

\* fetch_copilot_token(&self)
fetch_copilot_token(m, resp) ==
    IF ~IsSome(m.github_token)
    THEN [m |-> m, res |-> "GitHubTokenInvalid", sent |-> 0]
    ELSE IF exchange_result(resp) # Ok
    THEN [m |-> m, res |-> exchange_result(resp), sent |-> 1]
    ELSE [m |-> [m EXCEPT !.copilot_token =
                              Some(CopilotToken(resp.token, resp.expires_at))],
          res |-> Ok, sent |-> 1]

\* mutant: the cached Copilot token is written to the file too
save_to_disk_with_copilot_token(m, file, io, t) ==
    LET store == CopilotAuthStore(m.github_token, Some(t))
        text == to_string_pretty(store)
    IN IF io = "create_dir_failed"
       THEN [file |-> file, res |-> "IoError"]
       ELSE IF io = "write_failed_truncated"
       THEN [file |-> Some(TruncatedFile), res |-> "IoError"]
       ELSE [file |-> Some(SubSeq(text, 1, Len(text) - 1)
                           \o JsonString("copilot_token",
                                         IF IsSome(m.copilot_token)
                                         THEN m.copilot_token.v.token ELSE "")
                           \o <<RBrace>>),
             res |-> Ok]

\* save_to_disk(&self)
save_to_disk(m, file, io, t) ==
    LET store == CopilotAuthStore(m.github_token, Some(t))
    IN IF io = "create_dir_failed"
       THEN [file |-> file, res |-> "IoError"]
       ELSE IF io = "write_failed_truncated"
       THEN [file |-> Some(TruncatedFile), res |-> "IoError"]
       ELSE [file |-> Some(to_string_pretty(store)), res |-> Ok]

\* mutant: the stored token is parsed but never put into github_token
load_from_disk_sync_drops_token(m, file) ==
    IF ~IsSome(file) THEN [m |-> m, res |-> Ok]
    ELSE IF ~from_str(file.v).ok THEN [m |-> m, res |-> "ParseError"]
    ELSE [m |-> m, res |-> Ok]

\* load_from_disk_sync(&self); read_to_string of an existing file is taken to
\* succeed, and try_write on the lock of a manager under construction does
load_from_disk_sync(m, file) ==
    IF ~IsSome(file) THEN [m |-> m, res |-> Ok]
    ELSE LET parsed == from_str(file.v)
         IN IF ~parsed.ok THEN [m |-> m, res |-> "ParseError"]
            ELSE IF IsSome(parsed.store.github_token)
            THEN [m |-> [m EXCEPT !.github_token = parsed.store.github_token],
                  res |-> Ok]
            ELSE [m |-> m, res |-> Ok]

\* CopilotAuthManager::new(data_dir)
new(file) == load_from_disk_sync(Manager(None, None, None), file).m

\* mutant: slow_down has no arm of its own and falls to the generic error
oauth_error_without_slow_down(error) ==
    CASE error = "authorization_pending" -> "AuthorizationPending"
      [] error = "expired_token" -> "ExpiredToken"
      [] error = "access_denied" -> "AccessDenied"
      [] OTHER -> "NetworkError"

\* the error poll_for_token returns for an `error` field
oauth_error(error) ==
    CASE error = "authorization_pending" -> "AuthorizationPending"
      [] error = "slow_down" -> "AuthorizationPending"
      [] error = "expired_token" -> "ExpiredToken"
      [] error = "access_denied" -> "AccessDenied"
      [] OTHER -> "NetworkError"

\* mutant: the access token is looked at before the error field
oauth_result_token_first(resp) ==
    IF resp.transport = "error" THEN "NetworkError"
    ELSE IF ~resp.parses THEN "ParseError"
    ELSE IF IsSome(resp.access_token) THEN Ok
    ELSE IF IsSome(resp.error) THEN oauth_error(resp.error.v)
    ELSE "ParseError"

\* how poll_for_token classifies the response: an error, else Ok with the token
oauth_result(resp) ==
    IF resp.transport = "error" THEN "NetworkError"
    ELSE IF ~resp.parses THEN "ParseError"
    ELSE IF IsSome(resp.error) THEN oauth_error(resp.error.v)
    ELSE IF ~IsSome(resp.access_token) THEN "ParseError"
    ELSE Ok

\* poll_for_token(&self, device_code)
poll_for_token(m, file, device_code, oresp, uresp, eresp, io, t) ==
    IF oauth_result(oresp) # Ok
    THEN [m |-> m, file |-> file, res |-> oauth_result(oresp),
          calls |-> Calls(1, 0, 0), user_res |-> ""]
    ELSE LET m1 == [m EXCEPT !.github_token = oresp.access_token]
             u == fetch_user_info(m1, uresp)
             e == fetch_copilot_token(u.m, eresp)
             s == save_to_disk(e.m, file, io, t)
         IN IF e.res # Ok
            THEN [m |-> e.m, file |-> file, res |-> e.res,
                  calls |-> Calls(1, u.sent, e.sent), user_res |-> u.res]
            ELSE [m |-> e.m, file |-> s.file, res |-> s.res,
                  calls |-> Calls(1, u.sent, e.sent), user_res |-> u.res]

\* mutant: the cached token is never reused, every call refreshes
get_valid_token_always_refreshes(m, eresp, t) ==
    LET e == fetch_copilot_token(m, eresp)
    IN IF e.res # Ok
       THEN [m |-> e.m, res |-> e.res, value |-> "", calls |-> Calls(0, 0, e.sent)]
       ELSE [m |-> e.m, res |-> Ok, value |-> e.m.copilot_token.v.token,
             calls |-> Calls(0, 0, e.sent)]

\* get_valid_token(&self)
get_valid_token(m, eresp, t) ==
    IF IsSome(m.copilot_token) /\ ~is_expiring_soon(m.copilot_token.v, t)
    THEN [m |-> m, res |-> Ok, value |-> m.copilot_token.v.token, calls |-> NoCalls]
    ELSE LET e == fetch_copilot_token(m, eresp)
         IN IF e.res # Ok
            THEN [m |-> e.m, res |-> e.res, value |-> "", calls |-> Calls(0, 0, e.sent)]
            ELSE IF IsSome(e.m.copilot_token)
            THEN [m |-> e.m, res |-> Ok, value |-> e.m.copilot_token.v.token,
                  calls |-> Calls(0, 0, e.sent)]
            ELSE [m |-> e.m, res |-> "CopilotTokenFetchFailed", value |-> "",
                  calls |-> Calls(0, 0, e.sent)]

\* mutant: authenticated looks at the provider token alone
get_status_by_provider_token(m) ==
    [authenticated |-> IsSome(m.github_token),
     username |-> IF IsSome(m.github_user) THEN Some(m.github_user.v.login) ELSE None,
     expires_at |-> IF IsSome(m.copilot_token)
                    THEN Some(m.copilot_token.v.expires_at) ELSE None]

\* get_status(&self)
get_status(m) ==
    [authenticated |-> IsSome(m.github_token) /\ IsSome(m.copilot_token),
     username |-> IF IsSome(m.github_user) THEN Some(m.github_user.v.login) ELSE None,
     expires_at |-> IF IsSome(m.copilot_token)
                    THEN Some(m.copilot_token.v.expires_at) ELSE None]

\* is_authenticated(&self)
is_authenticated(m) == IsSome(m.github_token)

\* mutant: remove_file is called without the exists() check
clear_auth_without_exists_check(m, file, io) ==
    LET cleared == Manager(None, None, None)
    IN IF ~IsSome(file) \/ io = "failed"
       THEN [m |-> cleared, file |-> file, res |-> "IoError"]
       ELSE [m |-> cleared, file |-> None, res |-> Ok]

\* clear_auth(&self)
clear_auth(m, file, io) ==
    LET cleared == Manager(None, None, None)
    IN IF ~IsSome(file) THEN [m |-> cleared, file |-> file, res |-> Ok]
       ELSE IF io = "failed" THEN [m |-> cleared, file |-> file, res |-> "IoError"]
       ELSE [m |-> cleared, file |-> None, res |-> Ok]

\* start_device_flow(&self): the device code of the response, or an error
start_device_flow(resp, device_code) ==
    IF resp.transport = "error" THEN [res |-> "NetworkError", value |-> ""]
    ELSE IF ~is_success(resp.status) THEN [res |-> "NetworkError", value |-> ""]
    ELSE IF ~resp.parses THEN [res |-> "ParseError", value |-> ""]
    ELSE [res |-> Ok, value |-> device_code]

\* mutant: the catalog is returned unfiltered
picker_enabled_unfiltered(data) == data

\* .filter(|m| m.model_picker_enabled) and the map to CopilotModel
picker_enabled(data) == SelectSeq(data, LAMBDA item : item.model_picker_enabled)

\* fetch_models(&self)
fetch_models(m, eresp, mresp, t) ==
    LET g == get_valid_token(m, eresp, t)
    IN IF g.res # Ok
       THEN [m |-> g.m, res |-> g.res, models |-> << >>, calls |-> g.calls]
       ELSE IF mresp.transport = "error"
       THEN [m |-> g.m, res |-> "NetworkError", models |-> << >>,
             calls |-> [g.calls EXCEPT !.other = 1]]
       ELSE IF ~is_success(mresp.status)
       THEN [m |-> g.m, res |-> "CopilotTokenFetchFailed", models |-> << >>,
             calls |-> [g.calls EXCEPT !.other = 1]]
       ELSE IF ~mresp.parses
       THEN [m |-> g.m, res |-> "ParseError", models |-> << >>,
             calls |-> [g.calls EXCEPT !.other = 1]]
       ELSE [m |-> g.m, res |-> Ok, models |-> picker_enabled(mresp.data),
             calls |-> [g.calls EXCEPT !.other = 1]]

\* fetch_usage(&self)
fetch_usage(m, resp) ==
    IF ~IsSome(m.github_token) THEN [res |-> "GitHubTokenInvalid", sent |-> 0]
    ELSE IF resp.transport = "error" THEN [res |-> "NetworkError", sent |-> 1]
    ELSE IF resp.status = UNAUTHORIZED THEN [res |-> "GitHubTokenInvalid", sent |-> 1]
    ELSE IF ~is_success(resp.status) THEN [res |-> "CopilotTokenFetchFailed", sent |-> 1]
    ELSE IF ~resp.parses THEN [res |-> "ParseError", sent |-> 1]
    ELSE [res |-> Ok, sent |-> 1]

\* copilot_poll_for_auth(device_code, state): what the command returns
copilot_poll_for_auth(res) ==
    IF res = Ok THEN "Ok(true)"
    ELSE IF res = "AuthorizationPending" THEN "Ok(false)"
    ELSE "Err"

----------------------------------------------------------------------------
(* The state machine *)

\* the manager as the operations see it
M == Manager(github_token, copilot_token, github_user)

NoStatus == [authenticated |-> FALSE, username |-> None, expires_at |-> None]

\* the record of an operation: its result, the value it returned, the
\* requests it sent, the responses it consumed (`data` is the raw catalog of
\* the models response)
OpRec(name, res, value, calls, oresp, user_res, eresp) ==
    [name |-> name, res |-> res, value |-> value,
     calls |-> calls, oresp |-> oresp, user_res |-> user_res, eresp |-> eresp,
     status |-> NoStatus, cmd |-> "", models |-> << >>, data |-> << >>]

\* the commands that run at the same time
Tasks == {"t1", "t2"}

\* a command in flight: the manager method it runs, where it is, the lock
\* guards it holds, the value it carries to its next write, and `pre`, the
\* cache it started on, None once another command has written to the cache
Task(name, pc, held, val, pre) ==
    [name |-> name, pc |-> pc, held |-> held, val |-> val, pre |-> pre]
IdleTask == Task("", "idle", {}, None, None)
NoTasks == [t \in Tasks |-> IdleTask]

SetManager(m) ==
    /\ github_token' = m.github_token
    /\ copilot_token' = m.copilot_token
    /\ github_user' = m.github_user

Init ==
    /\ storage_file = None
    /\ github_token = new(None).github_token
    /\ copilot_token = new(None).copilot_token
    /\ github_user = new(None).github_user
    /\ now = 0
    /\ op = [name |-> "new", res |-> Ok, value |-> "", calls |-> NoCalls,
             oresp |-> None, user_res |-> "", eresp |-> None, status |-> NoStatus,
             cmd |-> "", models |-> << >>, data |-> << >>]
    /\ tasks = NoTasks

\* the process restarts: CopilotAuthManager::new on the same data_dir
New ==
    /\ SetManager(new(storage_file))
    /\ op' = OpRec("new", Ok, "", NoCalls, None, "", None)
    /\ UNCHANGED <<storage_file, now, tasks>>

\* copilot_poll_for_auth -> poll_for_token; the answers to requests and to a
\* write that the call never gets to are not drawn
PollForToken ==
    \E dc \in DeviceCodes, oresp \in OAuthResponses :
      \E uresp \in IF oauth_result(oresp) = Ok THEN UserResponses
                   ELSE {UserResponse("error", 0, FALSE, "")},
         eresp \in IF oauth_result(oresp) = Ok THEN TokenResponses
                   ELSE {TokenResponse("error", 0, FALSE, "", 0)} :
        \E io \in IF oauth_result(oresp) = Ok /\ exchange_result(eresp) = Ok
                  THEN WriteOutcomes ELSE {"ok"} :
          \E r \in {poll_for_token(M, storage_file, dc, oresp, uresp, eresp, io, now)} :
              /\ SetManager(r.m)
              /\ storage_file' = r.file
              /\ op' = [OpRec("poll_for_token", r.res, "", r.calls, Some(oresp), r.user_res,
                              IF r.calls.exchange = 1 THEN Some(eresp) ELSE None)
                          EXCEPT !.cmd = copilot_poll_for_auth(r.res)]
              /\ UNCHANGED <<now, tasks>>

\* copilot_get_token -> get_valid_token
GetValidToken ==
    \E eresp \in TokenResponses :
      \E r \in {get_valid_token(M, eresp, now)} :
         /\ SetManager(r.m)
         /\ op' = OpRec("get_valid_token", r.res, r.value, r.calls, None, "",
                        IF r.calls.exchange = 1 THEN Some(eresp) ELSE None)
         /\ UNCHANGED <<storage_file, now, tasks>>

\* copilot_get_auth_status -> get_status
GetStatus ==
    /\ op' = [OpRec("get_status", Ok, "", NoCalls, None, "", None)
                EXCEPT !.status = get_status(M)]
    /\ UNCHANGED <<github_token, copilot_token, github_user, storage_file, now, tasks>>

\* copilot_is_authenticated -> is_authenticated
IsAuthenticated ==
    /\ op' = OpRec("is_authenticated", Ok, IF is_authenticated(M) THEN "true" ELSE "false",
                   NoCalls, None, "", None)
    /\ UNCHANGED <<github_token, copilot_token, github_user, storage_file, now, tasks>>

\* copilot_logout -> clear_auth
ClearAuth ==
    \E io \in RemoveOutcomes :
      \E r \in {clear_auth(M, storage_file, io)} :
         /\ SetManager(r.m)
         /\ storage_file' = r.file
         /\ op' = OpRec("clear_auth", r.res, "", NoCalls, None, "", None)
         /\ UNCHANGED <<now, tasks>>

\* copilot_start_device_flow -> start_device_flow
StartDeviceFlow ==
    \E resp \in PlainResponses, dc \in DeviceCodes :
      \E r \in {start_device_flow(resp, dc)} :
         /\ op' = OpRec("start_device_flow", r.res, r.value, [NoCalls EXCEPT !.other = 1],
                        None, "", None)
         /\ UNCHANGED <<github_token, copilot_token, github_user, storage_file, now, tasks>>

\* copilot_get_models -> fetch_models, the models response drawn from
\* `responses`, and only when the request is sent
FetchModelsFrom(responses) ==
    \E eresp \in TokenResponses :
      \E mresp \in IF get_valid_token(M, eresp, now).res = Ok THEN responses
                   ELSE {ModelsResponse("error", 0, FALSE, << >>)} :
        \E r \in {fetch_models(M, eresp, mresp, now)} :
           /\ SetManager(r.m)
           /\ op' = [OpRec("fetch_models", r.res, "", r.calls, None, "",
                           IF r.calls.exchange = 1 THEN Some(eresp) ELSE None)
                       EXCEPT !.models = r.models,
                              !.data = IF r.calls.other = 1 THEN mresp.data ELSE << >>]
           /\ UNCHANGED <<storage_file, now, tasks>>

FetchModels == FetchModelsFrom(ModelsResponses)

\* copilot_get_usage -> fetch_usage
FetchUsage ==
    \E resp \in PlainResponses :
      \E r \in {fetch_usage(M, resp)} :
         /\ op' = OpRec("fetch_usage", r.res, "", [NoCalls EXCEPT !.other = r.sent],
                        None, "", None)
         /\ UNCHANGED <<github_token, copilot_token, github_user, storage_file, now, tasks>>

\* time passes
Tick ==
    /\ now < MaxTime
    /\ now' = now + 1
    /\ op' = OpRec("tick", Ok, "", NoCalls, None, "", None)
    /\ UNCHANGED <<github_token, copilot_token, github_user, storage_file, tasks>>

Next ==
    \/ New
    \/ PollForToken
    \/ GetValidToken
    \/ GetStatus
    \/ IsAuthenticated
    \/ ClearAuth
    \/ StartDeviceFlow
    \/ FetchModels
    \/ FetchUsage
    \/ Tick

Spec == Init /\ [][Next]_vars

----------------------------------------------------------------------------
(* Properties.  An operation that ends in the state it started from, with   *)
(* the same record in `op`, is a stuttering step; the step properties below *)
(* speak of the steps that change `vars`.                                   *)

TotalCalls(c) == c.oauth + c.user + c.exchange + c.other

\* the exchange response was no usable token: a transport failure, a
\* non-2xx status or a body that does not parse
ExchangeFailed(resp) ==
    resp.transport = "error" \/ resp.status \notin 200 .. 299 \/ ~resp.parses

\* C1: whenever poll_for_token returns Ok, is_authenticated() is true and
\* get_status().authenticated is true in the state it leaves, with no
\* further call: both tokens are cached.
C1_PollOkIsAuthenticated ==
    (op.name = "poll_for_token" /\ op.res = Ok)
        => /\ is_authenticated(M)
           /\ get_status(M).authenticated
           /\ IsSome(github_token) /\ IsSome(copilot_token)

C1_Witness ==
    /\ op.name = "poll_for_token" /\ op.res = Ok
    /\ get_status(M).authenticated

\* C2 as stated: get_valid_token sends nothing when the cached token passes
\* the buffer check, and exactly one exchange request in every call where
\* the cached token is absent or stale.
C2_OneExchangeWheneverStale ==
    [][op'.name = "get_valid_token"
         => IF IsSome(copilot_token) /\ ~is_expiring_soon(copilot_token.v, now)
            THEN TotalCalls(op'.calls) = 0
            ELSE op'.calls.exchange = 1]_vars

\* C2, amended: get_valid_token sends nothing and returns the cached token
\* when it passes the buffer check; when the cached token is absent or stale
\* it sends exactly one exchange request if a provider token is cached, and
\* no request at all, failing with GitHubTokenInvalid, if none is.
C2_OneExchangeWhenStaleAndAuthenticated ==
    [][op'.name = "get_valid_token"
         => IF IsSome(copilot_token) /\ ~is_expiring_soon(copilot_token.v, now)
            THEN /\ TotalCalls(op'.calls) = 0
                 /\ op'.res = Ok
                 /\ op'.value = copilot_token.v.token
            ELSE IF IsSome(github_token)
            THEN op'.calls.exchange = 1 /\ TotalCalls(op'.calls) = 1
            ELSE TotalCalls(op'.calls) = 0 /\ op'.res = "GitHubTokenInvalid"]_vars

C2_Witness ==
    /\ op.name = "get_valid_token"
    /\ op.calls.exchange = 1
    /\ op.res = Ok
    /\ IsSome(copilot_token) /\ op.value = copilot_token.v.token

\* C3: when the exchange inside get_valid_token fails (401, 403, another
\* non-2xx status, a transport or a parse failure), the call returns an error
\* and the cached provider token, Copilot token and user and the storage
\* file are as before; is_authenticated() keeps its value.
C3_FailedRefreshChangesNothing ==
    [][(op'.name = "get_valid_token" /\ IsSome(op'.eresp) /\ ExchangeFailed(op'.eresp.v))
         => /\ op'.res # Ok
            /\ op'.res \in {"NetworkError", "GitHubTokenInvalid", "NoCopilotSubscription",
                            "CopilotTokenFetchFailed", "ParseError"}
            /\ github_token' = github_token
            /\ copilot_token' = copilot_token
            /\ github_user' = github_user
            /\ storage_file' = storage_file
            /\ IsSome(github_token') = IsSome(github_token)]_vars

C3_Witness ==
    /\ op.name = "get_valid_token"
    /\ IsSome(op.eresp) /\ op.eresp.v.status = FORBIDDEN
    /\ op.res = "NoCopilotSubscription"
    /\ IsSome(github_token) /\ IsSome(copilot_token) /\ IsSome(storage_file)

\* C4 as stated: after construction, is_authenticated() changes only by
\* clear_auth or by a poll_for_token that returns Ok; no operation that
\* returns an error changes it.
C4_AuthChangesOnlyByLogoutOrPollOk ==
    [][IsSome(github_token') # IsSome(github_token)
         => \/ op'.name = "new"
            \/ op'.name = "clear_auth"
            \/ (op'.name = "poll_for_token" /\ op'.res = Ok)]_vars

\* C5 as stated: from any reachable state clear_auth returns Ok and leaves
\* is_authenticated() false, the three cached values absent and no storage
\* file.
C5_LogoutAlwaysSucceeds ==
    op.name = "clear_auth"
        => /\ op.res = Ok
           /\ ~is_authenticated(M)
           /\ M = Manager(None, None, None)
           /\ storage_file = None

\* C5, amended: clear_auth always leaves the three cached values absent and
\* is_authenticated() false; it returns Ok, leaving no storage file, unless
\* removing an existing storage file fails, and then it returns IoError and
\* the file stays; with no storage file (never authenticated, or right after
\* a clear_auth that returned Ok) it returns Ok.
C5_LogoutIdempotent ==
    [][op'.name = "clear_auth"
         => /\ github_token' = None /\ copilot_token' = None /\ github_user' = None
            /\ ~IsSome(github_token')
            /\ op'.res \in {Ok, "IoError"}
            /\ (op'.res = Ok => storage_file' = None)
            /\ (op'.res = "IoError" => IsSome(storage_file) /\ storage_file' = storage_file)
            /\ (storage_file = None => op'.res = Ok)
            /\ ((op.name = "clear_auth" /\ op.res = Ok) => op'.res = Ok)]_vars

C5_Witness ==
    /\ op.name = "clear_auth"
    /\ op.res = Ok
    /\ M = Manager(None, None, None)
    /\ storage_file = None

\* the provider token a manager would load from the file
StoredToken(file) ==
    IF IsSome(file) /\ from_str(file.v).ok THEN from_str(file.v).store.github_token
    ELSE None

\* C6 as stated: poll_for_token writes the storage file only after its own
\* exchange succeeded, and once it has returned the provider token it
\* obtained is never left cached without a Copilot token, nor cached and
\* exchanged without being in the storage file.
C6_NoPartialStateAfterPoll ==
    [][op'.name = "poll_for_token"
         => /\ (storage_file' # storage_file
                  => IsSome(op'.eresp) /\ ~ExchangeFailed(op'.eresp.v))
            /\ (oauth_result(op'.oresp.v) = Ok /\ IsSome(github_token')
                  => /\ IsSome(copilot_token')
                     /\ StoredToken(storage_file') = github_token')]_vars

C8_StoreHoldsOnlyProviderToken ==
    IsSome(storage_file)
        => \A i \in 1 .. Len(storage_file.v) :
              /\ storage_file.v[i].kind = "key"
                    => storage_file.v[i].s \in {"github_token", "authenticated_at"}
              /\ storage_file.v[i].kind = "string"
                    => /\ storage_file.v[i].s \notin JwtTokens \cup DeviceCodes
                       /\ storage_file.v[i].s \in GitHubTokens

C8_Witness ==
    /\ op.name = "poll_for_token" /\ op.res = Ok
    /\ IsSome(copilot_token)
    /\ IsSome(storage_file) /\ Len(storage_file.v) > 0
    /\ StoredToken(storage_file) = github_token

\* the exchange response an operation consumed had this HTTP status
ExchangeAnswered(status) ==
    /\ op.name \in {"poll_for_token", "get_valid_token", "fetch_models"}
    /\ IsSome(op.eresp)
    /\ op.eresp.v.transport = "ok"
    /\ op.eresp.v.status = status

\* the poll response carried this `error`
PollAnswered(error) ==
    /\ op.name = "poll_for_token"
    /\ op.oresp.v.transport = "ok" /\ op.oresp.v.parses
    /\ op.oresp.v.error = Some(error)

\* C9: the poll errors authorization_pending and slow_down give
\* AuthorizationPending (the command answers Ok(false)), expired_token gives
\* ExpiredToken, access_denied gives AccessDenied, any other error string a
\* generic failure; an exchange answered 401 gives GitHubTokenInvalid and
\* one answered 403 gives NoCopilotSubscription.
C9_ErrorMapping ==
    /\ \A e \in {"authorization_pending", "slow_down"} :
          PollAnswered(e) => op.res = "AuthorizationPending" /\ op.cmd = "Ok(false)"
    /\ PollAnswered("expired_token") => op.res = "ExpiredToken" /\ op.cmd = "Err"
    /\ PollAnswered("access_denied") => op.res = "AccessDenied" /\ op.cmd = "Err"
    /\ \A e \in OAuthErrors \ {"authorization_pending", "slow_down", "expired_token",
                                "access_denied"} :
          PollAnswered(e) => op.res = "NetworkError" /\ op.cmd = "Err"
    /\ ExchangeAnswered(UNAUTHORIZED) => op.res = "GitHubTokenInvalid"
    /\ ExchangeAnswered(FORBIDDEN) => op.res = "NoCopilotSubscription"

C9_Witness ==
    /\ PollAnswered("slow_down")
    /\ op.res = "AuthorizationPending"
    /\ op.calls = Calls(1, 0, 0)

\* C13 as stated: once clear_auth has returned, with Ok or with a storage
\* error, the provider token is cleared from the cache and from the storage
\* file together: it is never absent from the cache while the file still
\* holds it, so that a manager constructed on the file would not be
\* authenticated again.
C13_LogoutClearsCacheAndStoreTogether ==
    op.name = "clear_auth"
        => /\ ~(github_token = None /\ IsSome(StoredToken(storage_file)))
           /\ ~is_authenticated(new(storage_file))

\* C17 as stated: a failed user lookup never makes poll_for_token fail, its
\* result is that of the exchange and, after it, of the store write; and
\* after a poll that returned Ok with a failed user lookup get_status()
\* reports no username, also when a user was cached before the poll.
C17_FailedLookupLeavesUsernameUnknown ==
    [][(op'.name = "poll_for_token" /\ oauth_result(op'.oresp.v) = Ok)
         => /\ op'.calls.user = 1 /\ op'.calls.exchange = 1
            /\ (exchange_result(op'.eresp.v) # Ok
                  => op'.res = exchange_result(op'.eresp.v))
            /\ (exchange_result(op'.eresp.v) = Ok => op'.res \in {Ok, "IoError"})
            /\ ((op'.res = Ok /\ op'.user_res # Ok)
                  => get_status(Manager(github_token', copilot_token',
                                        github_user')).username = None)]_vars

\* the half of C17 that holds: the result of the poll is that of the
\* exchange and of the store write, whatever the user lookup returned
PollResultIgnoresUserLookup ==
    [][(op'.name = "poll_for_token" /\ oauth_result(op'.oresp.v) = Ok)
         => /\ op'.calls.user = 1 /\ op'.calls.exchange = 1
            /\ (exchange_result(op'.eresp.v) # Ok
                  => op'.res = exchange_result(op'.eresp.v))
            /\ (exchange_result(op'.eresp.v) = Ok => op'.res \in {Ok, "IoError"})]_vars

\* C19: poll_for_token looks at the error field first: a response with an
\* error gives the mapped error also when it carries an access token, a
\* response with neither gives ParseError; and whenever the response is not
\* classified as a success the three cached values and the storage file are
\* as before and the poll request is the only request sent.
C19_PollClassification ==
    [][op'.name = "poll_for_token"
         => LET r == op'.oresp.v
                success == /\ r.transport = "ok" /\ r.parses
                           /\ r.error = None /\ r.access_token # None
            IN /\ (r.transport = "ok" /\ r.parses /\ r.error # None)
                     => /\ op'.res = oauth_error(r.error.v)
                        /\ op'.res \in {"AuthorizationPending", "ExpiredToken",
                                        "AccessDenied", "NetworkError"}
               /\ (r.transport = "ok" /\ r.parses /\ r.error = None
                      /\ r.access_token = None)
                     => op'.res = "ParseError"
               /\ ~success
                     => /\ op'.res # Ok
                        /\ github_token' = github_token
                        /\ copilot_token' = copilot_token
                        /\ github_user' = github_user
                        /\ storage_file' = storage_file
                        /\ op'.calls = Calls(1, 0, 0)]_vars

C19_Witness ==
    /\ op.name = "poll_for_token"
    /\ op.oresp.v.error = Some("authorization_pending")
    /\ op.oresp.v.access_token = Some("gh1")
    /\ op.res = "AuthorizationPending"
    /\ op.calls = Calls(1, 0, 0)
    /\ github_token = Some("gh2") /\ IsSome(copilot_token)
    /\ StoredToken(storage_file) = Some("gh2")

\* the storage file holds a record: its text parses as a CopilotAuthStore
RecordExists(file) == IsSome(file) /\ from_str(file.v).ok

\* C20 as stated: in every state an operation leaves, a record in the
\* storage file holds a provider token (it is never a record with a null
\* token), and a record and a cached provider token hold the same token.
C20_StoreMirrorsCache ==
    RecordExists(storage_file)
        => /\ IsSome(StoredToken(storage_file))
           /\ (IsSome(github_token) => StoredToken(storage_file) = github_token)

\* the half of C20 that holds here: a record never holds a null token
RecordHoldsProviderToken ==
    RecordExists(storage_file) => IsSome(StoredToken(storage_file))

\* C12: get_status never fails, sends no request, leaves the three cached
\* values and the storage file as they are, and returns authenticated =
\* (provider token cached and Copilot token cached), username = the login
\* of the cached user, absent with no user, expires_at = the expiry of the
\* cached Copilot token, absent with no token.
C12_StatusIsProjection ==
    [][op'.name = "get_status"
         => /\ op'.res = Ok
            /\ TotalCalls(op'.calls) = 0
            /\ github_token' = github_token
            /\ copilot_token' = copilot_token
            /\ github_user' = github_user
            /\ storage_file' = storage_file
            /\ op'.status.authenticated = (github_token # None /\ copilot_token # None)
            /\ (github_user = None => op'.status.username = None)
            /\ (github_user # None => op'.status.username = Some(github_user.v.login))
            /\ (copilot_token = None => op'.status.expires_at = None)
            /\ (copilot_token # None
                  => op'.status.expires_at = Some(copilot_token.v.expires_at))]_vars

C12_Witness ==
    /\ op.name = "get_status"
    /\ ~op.status.authenticated
    /\ github_token # None /\ copilot_token = None
    /\ op.status.username = Some("alice")
    /\ op.status.expires_at = None

----------------------------------------------------------------------------
(* CopilotToken::is_expiring_soon on its own: every expiry and every clock  *)
(* value of the integer width, in a debug build (the subtraction panics on  *)
(* overflow) and in a release build (it wraps).                             *)

InitExpiry ==
    /\ github_token = None
    /\ copilot_token \in {Some(CopilotToken("jwt1", e)) : e \in MinInt .. MaxInt}
    /\ github_user = None
    /\ storage_file = None
    /\ now \in 0 .. MaxInt
    /\ op = OpRec("new", Ok, "", NoCalls, None, "", None)
    /\ tasks = NoTasks

IsExpiringSoon ==
    \E build \in {"debug", "release"} :
      /\ op.name = "new"
      /\ op' = [OpRec("is_expiring_soon", Ok,
                      IF build = "debug" /\ i64_sub_overflows(copilot_token.v.expires_at, now)
                      THEN "panic"
                      ELSE IF is_expiring_soon(copilot_token.v, now) THEN "true"
                      ELSE "false",
                      NoCalls, None, "", None)
                  EXCEPT !.cmd = build]
      /\ UNCHANGED <<github_token, copilot_token, github_user, storage_file, now, tasks>>

NextExpiry == IsExpiringSoon

SpecExpiry == InitExpiry /\ [][NextExpiry]_vars

\* C10 as stated: for every token and every current time is_expiring_soon()
\* is true exactly when expires_at - now < 60.
C10_ExpiringSoonIffUnderBuffer ==
    op.name = "is_expiring_soon"
        => ((op.value = "true")
              <=> (copilot_token.v.expires_at - now < TOKEN_REFRESH_BUFFER_SECONDS))

\* where the subtraction does not overflow the answer is the stated one
ExpiringSoonIffUnderBufferInRange ==
    (op.name = "is_expiring_soon" /\ ~i64_sub_overflows(copilot_token.v.expires_at, now))
        => ((op.value = "true")
              <=> (copilot_token.v.expires_at - now < TOKEN_REFRESH_BUFFER_SECONDS))

----------------------------------------------------------------------------
(* fetch_models and get_valid_token on every content of the cache, with     *)
(* catalogs of up to MaxModels entries: a provider token or none, and no    *)
(* Copilot token, a stale or a fresh one.  A Copilot token cached without a *)
(* provider token is what an exchange that answers after clear_auth leaves. *)

LongCatalogs == UNION {[1 .. n -> ModelItems] : n \in 0 .. MaxModels}
LongModelsResponses ==
    {ModelsResponse("error", 0, FALSE, << >>), ModelsResponse("ok", 500, FALSE, << >>),
     ModelsResponse("ok", 200, FALSE, << >>)}
    \cup {ModelsResponse("ok", 200, TRUE, c) : c \in LongCatalogs}

InitModels ==
    /\ github_token \in {None, Some("gh1")}
    /\ copilot_token \in {None} \cup {Some(CopilotToken("jwt1", e)) : e \in ExpiryValues}
    /\ github_user = None
    /\ storage_file = None
    /\ now = 0
    /\ op = OpRec("new", Ok, "", NoCalls, None, "", None)
    /\ tasks = NoTasks

ListModels == FetchModelsFrom(LongModelsResponses)

NextModels ==
    \/ ListModels
    \/ GetValidToken

SpecModels == InitModels /\ [][NextModels]_vars

\* the entries of `data` with the picker flag set, first to last
RECURSIVE EnabledInOrder(_)
EnabledInOrder(data) ==
    IF data = << >> THEN << >>
    ELSE IF Head(data).model_picker_enabled
    THEN <<Head(data)>> \o EnabledInOrder(Tail(data))
    ELSE EnabledInOrder(Tail(data))

\* C11: for every raw catalog, a fetch_models that returns Ok returns exactly
\* the entries whose model_picker_enabled is true, in the order of the
\* catalog, and no entry whose flag is false.
C11_OnlyPickerEnabledInOrder ==
    (op.name = "fetch_models" /\ op.res = Ok)
        => /\ op.models = EnabledInOrder(op.data)
           /\ \A i \in 1 .. Len(op.models) : op.models[i].model_picker_enabled
           /\ \A i \in 1 .. Len(op.data) :
                 op.data[i].model_picker_enabled
                    => \E j \in 1 .. Len(op.models) : op.models[j] = op.data[i]

C11_Witness ==
    /\ op.name = "fetch_models" /\ op.res = Ok
    /\ Len(op.data) = 3
    /\ op.data[1].id = "c" /\ op.data[2].id = "b" /\ op.data[3].id = "a"
    /\ Len(op.models) = 2
    /\ op.models[1].id = "c" /\ op.models[2].id = "a"

\* C16: with no provider token cached, get_valid_token on an empty or stale
\* cache and fetch_models on an empty or stale cache fail with
\* GitHubTokenInvalid, send no request and leave the three cached values
\* and the storage file as they are.
C16_ExchangeNeedsProviderToken ==
    [][(/\ op'.name \in {"get_valid_token", "fetch_models"}
        /\ github_token = None
        /\ (copilot_token = None \/ is_expiring_soon(copilot_token.v, now)))
         => /\ op'.res = "GitHubTokenInvalid"
            /\ TotalCalls(op'.calls) = 0
            /\ github_token' = github_token
            /\ copilot_token' = copilot_token
            /\ github_user' = github_user
            /\ storage_file' = storage_file]_vars

C16_Witness ==
    /\ op.name = "fetch_models"
    /\ op.res = "GitHubTokenInvalid"
    /\ TotalCalls(op.calls) = 0
    /\ github_token = None
    /\ copilot_token # None /\ is_expiring_soon(copilot_token.v, now)

----------------------------------------------------------------------------
(* The commands step by step: several commands run at once, each holding   *)
(* the read guard of the manager lock it took in commands/copilot.rs, and  *)
(* each `.await` is a step.  A write block (`write().await`, the           *)
(* assignment, the drop of the guard) is one step, taken when no other     *)
(* guard of that lock is out.  A read block that holds no guard across an  *)
(* await is one step too; read() is taken to be granted at once, no write  *)
(* guard being held from one step to the next.  The clock stands still.    *)

\* a lock guard
Guard(lock, mode) == [lock |-> lock, mode |-> mode]
\* let auth_manager = state.0.read().await
ManagerGuard == Guard("manager", "read")
FieldLocks == {"github_token", "copilot_token", "github_user"}

Holders(lock) == {t \in Tasks : \E g \in tasks[t].held : g.lock = lock}
\* RwLock::write() is granted when no other guard of the lock is out
CanWrite(t, lock) == Holders(lock) \ {t} = {}
\* RwLock::read() is granted when no write guard of the lock is out
CanRead(lock) == \A t \in Tasks : Guard(lock, "write") \notin tasks[t].held

InFlight(t) == tasks[t].pc \notin {"idle", "cancelled"}

\* the positions where a request is in flight
NetworkPcs == {"poll_await", "user_await", "exchange_await", "usage_await"}
\* the positions where the storage file is written or removed
StorePcs == {"save_write", "clear_file"}

\* the field lock a command is about to take at `pc`, "" for none
Acquiring(pc) ==
    CASE pc \in {"poll_store", "clear_github_token", "status_github_token",
                 "save_lock", "user_read", "exchange_read", "usage_read"}
            -> "github_token"
      [] pc \in {"exchange_store", "clear_copilot_token", "status_copilot_token",
                 "token_check", "token_reread"}
            -> "copilot_token"
      [] pc \in {"user_store", "clear_github_user", "status_github_user"}
            -> "github_user"
      [] OTHER -> ""

\* the positions where the lock is taken for writing
WritePcs == {"poll_store", "clear_github_token", "exchange_store", "clear_copilot_token",
             "user_store", "clear_github_user"}

\* the command waits: for a response, or for a lock it cannot have yet
Pending(t) ==
    \/ tasks[t].pc \in NetworkPcs
    \/ tasks[t].pc \in WritePcs /\ ~CanWrite(t, Acquiring(tasks[t].pc))

Commands == {"poll_for_token", "get_valid_token", "get_status", "clear_auth", "fetch_usage"}

FirstPc(name) ==
    CASE name = "poll_for_token" -> "poll_await"
      [] name = "get_valid_token" -> "token_check"
      [] name = "get_status" -> "status_github_token"
      [] name = "clear_auth" -> "clear_github_token"
      [] name = "fetch_usage" -> "usage_read"

\* task t moves to `pc` carrying `val`
Goto(t, pc, val) == tasks' = [tasks EXCEPT ![t].pc = pc, ![t].val = val]
\* a return that drops no guard
Return_keeps_guards(t) == tasks' = [tasks EXCEPT ![t].pc = "idle"]

\* the command returns and its guards are dropped
Return(t) == tasks' = [tasks EXCEPT ![t] = IdleTask]

\* the tasks after t wrote to the cache and went on as `next`: the other
\* commands in flight no longer run on the cache they started on
AfterWrite(t, next) ==
    [u \in Tasks |->
        IF u = t THEN next
        ELSE IF InFlight(u) THEN [tasks[u] EXCEPT !.pre = None]
        ELSE tasks[u]]

\* a command, one of `names`, is invoked: it takes the manager lock and
\* calls the method; `pre` is what is kept of the cache it starts on
StartCommandOf(names, pre) ==
    \E t \in Tasks, name \in names :
      /\ ~InFlight(t)
      /\ CanRead("manager")
      /\ tasks' = [tasks EXCEPT ![t] = Task(name, FirstPc(name), {ManagerGuard}, None, pre)]
      /\ UNCHANGED <<github_token, copilot_token, github_user, storage_file, now, op>>

StartCommand == StartCommandOf(Commands, Some(M))

\* poll_for_token: the response to the poll request is classified
PollResponseFrom(responses) ==
    \E t \in Tasks, oresp \in responses :
      /\ tasks[t].pc = "poll_await"
      /\ IF oauth_result(oresp) # Ok THEN Return(t)
         ELSE Goto(t, "poll_store", oresp.access_token)
      /\ UNCHANGED <<github_token, copilot_token, github_user, storage_file, now, op>>

PollResponse == PollResponseFrom(OAuthResponses)

\* poll_for_token: *token = Some(access_token)
PollStore ==
    \E t \in Tasks :
      /\ tasks[t].pc = "poll_store"
      /\ CanWrite(t, "github_token")
      /\ github_token' = tasks[t].val
      /\ tasks' = AfterWrite(t, [tasks[t] EXCEPT !.pc = "user_read", !.val = None])
      /\ UNCHANGED <<copilot_token, github_user, storage_file, now, op>>

\* fetch_user_info: the token is read and the request sent
UserRead ==
    \E t \in Tasks :
      /\ tasks[t].pc = "user_read"
      /\ CanRead("github_token")
      /\ IF IsSome(github_token) THEN Goto(t, "user_await", None)
         ELSE Goto(t, "exchange_read", None)
      /\ UNCHANGED <<github_token, copilot_token, github_user, storage_file, now, op>>

\* fetch_user_info: the response; poll_for_token goes on after an error
UserRespondedFrom(responses) ==
    \E t \in Tasks, uresp \in responses :
      /\ tasks[t].pc = "user_await"
      /\ IF uresp.transport = "error" \/ ~is_success(uresp.status) \/ ~uresp.parses
         THEN Goto(t, "exchange_read", None)
         ELSE Goto(t, "user_store", Some(GitHubUser(uresp.login)))
      /\ UNCHANGED <<github_token, copilot_token, github_user, storage_file, now, op>>

UserResponded == UserRespondedFrom(UserResponses)

\* fetch_user_info: *github_user = Some(user)
UserStore ==
    \E t \in Tasks :
      /\ tasks[t].pc = "user_store"
      /\ CanWrite(t, "github_user")
      /\ github_user' = tasks[t].val
      /\ tasks' = AfterWrite(t, [tasks[t] EXCEPT !.pc = "exchange_read", !.val = None])
      /\ UNCHANGED <<github_token, copilot_token, storage_file, now, op>>

\* fetch_copilot_token: the token is read and the request sent
ExchangeRead ==
    \E t \in Tasks :
      /\ tasks[t].pc = "exchange_read"
      /\ CanRead("github_token")
      /\ IF IsSome(github_token) THEN Goto(t, "exchange_await", None) ELSE Return(t)
      /\ UNCHANGED <<github_token, copilot_token, github_user, storage_file, now, op>>

\* fetch_copilot_token: the response, one of `responses`; with `issued` set, `op` keeps the
\* last response that carried a token, the token the server issued last
ExchangeRespondedFrom(responses, issued) ==
    \E t \in Tasks, eresp \in responses :
      /\ tasks[t].pc = "exchange_await"
      /\ IF exchange_result(eresp) # Ok THEN Return(t)
         ELSE Goto(t, "exchange_store",
                   Some(CopilotToken(eresp.token, eresp.expires_at)))
      /\ op' = IF issued /\ exchange_result(eresp) = Ok
               THEN OpRec("exchange", Ok, eresp.token, Calls(0, 0, 1), None, "",
                          Some(eresp))
               ELSE op
      /\ UNCHANGED <<github_token, copilot_token, github_user, storage_file, now>>

ExchangeResponded == ExchangeRespondedFrom(TokenResponses, FALSE)

\* fetch_copilot_token: *token = Some(copilot_token); back in the caller
ExchangeStore ==
    \E t \in Tasks :
      /\ tasks[t].pc = "exchange_store"
      /\ CanWrite(t, "copilot_token")
      /\ copilot_token' = tasks[t].val
      /\ tasks' = AfterWrite(t, [tasks[t] EXCEPT
                                !.pc = IF tasks[t].name = "poll_for_token"
                                       THEN "save_lock" ELSE "token_reread",
                                !.val = None])
      /\ UNCHANGED <<github_token, github_user, storage_file, now, op>>

\* save_to_disk: let github_token = self.github_token.read().await, kept
\* to the end of the function
SaveLock ==
    \E t \in Tasks :
      /\ tasks[t].pc = "save_lock"
      /\ CanRead("github_token")
      /\ tasks' = [tasks EXCEPT ![t].pc = "save_write",
                                ![t].held = @ \cup {Guard("github_token", "read")}]
      /\ UNCHANGED <<github_token, copilot_token, github_user, storage_file, now, op>>

\* save_to_disk: create_dir_all and write; poll_for_token returns
SaveWrite ==
    \E t \in Tasks, io \in WriteOutcomes :
      /\ tasks[t].pc = "save_write"
      /\ storage_file' = save_to_disk(M, storage_file, io, now).file
      /\ Return(t)
      /\ UNCHANGED <<github_token, copilot_token, github_user, now, op>>

\* get_valid_token: the cached token is returned unless missing or stale
TokenCheck ==
    \E t \in Tasks :
      /\ tasks[t].pc = "token_check"
      /\ CanRead("copilot_token")
      /\ IF IsSome(copilot_token) /\ ~is_expiring_soon(copilot_token.v, now)
         THEN Return(t) ELSE Goto(t, "exchange_read", None)
      /\ UNCHANGED <<github_token, copilot_token, github_user, storage_file, now, op>>

\* get_valid_token: the token is read again after the refresh and returned
TokenReread ==
    \E t \in Tasks :
      /\ tasks[t].pc = "token_reread"
      /\ CanRead("copilot_token")
      /\ Return(t)
      /\ UNCHANGED <<github_token, copilot_token, github_user, storage_file, now, op>>

\* get_status: the three read guards are taken one after the other and kept
StatusLock ==
    \E t \in Tasks :
      /\ tasks[t].pc \in {"status_github_token", "status_copilot_token"}
      /\ CanRead(Acquiring(tasks[t].pc))
      /\ tasks' = [tasks EXCEPT
                     ![t].pc = IF @ = "status_github_token" THEN "status_copilot_token"
                               ELSE "status_github_user",
                     ![t].held = @ \cup {Guard(Acquiring(tasks[t].pc), "read")}]
      /\ UNCHANGED <<github_token, copilot_token, github_user, storage_file, now, op>>

\* get_status: the third guard, the status, and the return
StatusReturn ==
    \E t \in Tasks :
      /\ tasks[t].pc = "status_github_user"
      /\ CanRead("github_user")
      /\ Return(t)
      /\ UNCHANGED <<github_token, copilot_token, github_user, storage_file, now, op>>

\* clear_auth: the three write blocks, one after the other
ClearField ==
    \E t \in Tasks :
      /\ tasks[t].pc \in {"clear_github_token", "clear_copilot_token", "clear_github_user"}
      /\ CanWrite(t, Acquiring(tasks[t].pc))
      /\ github_token' = IF tasks[t].pc = "clear_github_token" THEN None ELSE github_token
      /\ copilot_token' = IF tasks[t].pc = "clear_copilot_token" THEN None ELSE copilot_token
      /\ github_user' = IF tasks[t].pc = "clear_github_user" THEN None ELSE github_user
      /\ tasks' = AfterWrite(t, [tasks[t] EXCEPT
                                !.pc = CASE @ = "clear_github_token" -> "clear_copilot_token"
                                         [] @ = "clear_copilot_token" -> "clear_github_user"
                                         [] @ = "clear_github_user" -> "clear_file"])
      /\ UNCHANGED <<storage_file, now, op>>

\* clear_auth: the file is removed if it exists, and clear_auth returns
ClearFile ==
    \E t \in Tasks, io \in RemoveOutcomes :
      /\ tasks[t].pc = "clear_file"
      /\ storage_file' = clear_auth(M, storage_file, io).file
      /\ Return(t)
      /\ UNCHANGED <<github_token, copilot_token, github_user, now, op>>

\* fetch_usage: the token is read and the request sent
UsageRead ==
    \E t \in Tasks :
      /\ tasks[t].pc = "usage_read"
      /\ CanRead("github_token")
      /\ IF IsSome(github_token) THEN Goto(t, "usage_await", None) ELSE Return(t)
      /\ UNCHANGED <<github_token, copilot_token, github_user, storage_file, now, op>>

\* fetch_usage: the response, and the return
UsageResponded ==
    \E t \in Tasks, resp \in PlainResponses :
      /\ tasks[t].pc = "usage_await"
      /\ Return(t)
      /\ UNCHANGED <<github_token, copilot_token, github_user, storage_file, now, op>>

\* the caller drops the future of a command that waits: its guards are
\* dropped with it
Cancel ==
    \E t \in Tasks :
      /\ InFlight(t)
      /\ Pending(t)
      /\ tasks' = [tasks EXCEPT ![t] = [IdleTask EXCEPT !.pc = "cancelled"]]
      /\ UNCHANGED <<github_token, copilot_token, github_user, storage_file, now, op>>

NextTasks ==
    \/ StartCommand
    \/ PollResponse
    \/ PollStore
    \/ UserRead
    \/ UserResponded
    \/ UserStore
    \/ ExchangeRead
    \/ ExchangeResponded
    \/ ExchangeStore
    \/ SaveLock
    \/ SaveWrite
    \/ TokenCheck
    \/ TokenReread
    \/ StatusLock
    \/ StatusReturn
    \/ ClearField
    \/ ClearFile
    \/ UsageRead
    \/ UsageResponded
    \/ Cancel

SpecTasks == Init /\ [][NextTasks]_vars

\* the field guards a command holds
FieldGuards(t) == {g \in tasks[t].held : g.lock \in FieldLocks}

\* C14 as stated: no command holds a lock, neither a field lock nor the
\* manager lock of the command layer, while one of its requests is in
\* flight or while it writes or removes the storage file.
C14_NoLockAcrossSuspension ==
    \A t \in Tasks :
        tasks[t].pc \in NetworkPcs \cup StorePcs => tasks[t].held = {}

\* the part of C14 that holds: no field guard is out while a request of its
\* holder is in flight
NoFieldGuardAcrossRequest ==
    \A t \in Tasks : tasks[t].pc \in NetworkPcs => FieldGuards(t) = {}

\* C15 as stated: no command holds the guards of two fields, and none holds
\* the guard of one field while it takes the lock of another.
C15_FieldsNeverLockedTogether ==
    \A t \in Tasks :
        /\ Cardinality({g.lock : g \in FieldGuards(t)}) <= 1
        /\ (InFlight(t) /\ Acquiring(tasks[t].pc) # "")
              => \A g \in FieldGuards(t) : g.lock = Acquiring(tasks[t].pc)

\* the caches a command started on `pre` can leave when it runs to its
\* return, with any result
Completed(name, pre) ==
    CASE name = "poll_for_token"
           -> {poll_for_token(pre, storage_file, dc, o, u, e, io, now).m :
                  dc \in DeviceCodes, o \in OAuthResponses, u \in UserResponses,
                  e \in TokenResponses, io \in WriteOutcomes}
      [] name = "get_valid_token"
           -> {get_valid_token(pre, e, now).m : e \in TokenResponses}
      [] name = "clear_auth"
           -> {clear_auth(pre, storage_file, io).m : io \in RemoveOutcomes}
      [] OTHER -> {pre}

\* the caches a command started on `pre` can leave when it returns Ok
CompletedOk(name, pre) ==
    CASE name = "poll_for_token"
           -> {r.m : r \in {x \in {poll_for_token(pre, storage_file, dc, o, u, e, io, now) :
                                      dc \in DeviceCodes, o \in OAuthResponses,
                                      u \in UserResponses, e \in TokenResponses,
                                      io \in WriteOutcomes} : x.res = Ok}}
      [] OTHER -> Completed(name, pre)

\* C18 as stated: when a command that waits is abandoned, and no other
\* command has written to the cache since it started, the three cached
\* values are all what they were when it started, or all what the command
\* leaves when it runs to its return.
C18_CancelLeavesNoPartialUpdate ==
    [][\A t \in Tasks :
          (InFlight(t) /\ tasks'[t].pc = "cancelled" /\ IsSome(tasks[t].pre))
             => M \in {tasks[t].pre.v}
                      \cup Completed(tasks[t].name, tasks[t].pre.v)]_vars

\* C18 read with "completes" as "returns Ok": violated by poll_for_token
\* alone, abandoned while the user lookup or the exchange is in flight
CancelLeavesAllOrNothing ==
    [][\A t \in Tasks :
          (/\ InFlight(t) /\ tasks'[t].pc = "cancelled" /\ IsSome(tasks[t].pre)
           /\ tasks[t].pc \in NetworkPcs)
             => M \in {tasks[t].pre.v}
                      \cup CompletedOk(tasks[t].name, tasks[t].pre.v)]_vars

\* no command is in flight
Quiescent == \A t \in Tasks : ~InFlight(t)

\* C22 as stated: under any interleaving of the commands, whenever every
\* command has returned, a cached Copilot token comes with a cached provider
\* token; so after a logout that has returned and no later successful poll
\* get_valid_token has no token to return.
C22_DownstreamImpliesProvider ==
    Quiescent => (IsSome(copilot_token) => IsSome(github_token))

\* what follows from a Copilot token cached without a provider token:
\* get_valid_token returns Ok with no provider token cached (violated under
\* SpecModels, by a fresh token)
NoTokenWithoutProvider ==
    (op.name = "get_valid_token" /\ op.res = Ok) => IsSome(github_token)

----------------------------------------------------------------------------
(* get_valid_token against get_valid_token: an authenticated manager whose *)
(* cache is empty or stale, and commands that all run get_valid_token.     *)
(* The stale token of the start expires before any token the server issues.*)

InitRefresh ==
    /\ github_token = Some("gh1")
    /\ copilot_token \in {None, Some(CopilotToken("jwt1", TOKEN_REFRESH_BUFFER_SECONDS - 2))}
    /\ github_user = None
    /\ storage_file = Some(to_string_pretty(CopilotAuthStore(Some("gh1"), Some(0))))
    /\ now = 0
    /\ op = OpRec("new", Ok, "", NoCalls, None, "", None)
    /\ tasks = NoTasks

StartRefresh == StartCommandOf({"get_valid_token"}, None)

ExchangeIssued == ExchangeRespondedFrom(TokenResponses, TRUE)

NextRefresh ==
    \/ StartRefresh
    \/ TokenCheck
    \/ ExchangeRead
    \/ ExchangeIssued
    \/ ExchangeStore
    \/ TokenReread

SpecRefresh == InitRefresh /\ [][NextRefresh]_vars

\* the token of the last response that carried one
LastIssued == CopilotToken(op.eresp.v.token, op.eresp.v.expires_at)

\* a get_valid_token returns in this step, with what it read from the cache
TokenReturned(t) ==
    /\ tasks[t].pc \in {"token_check", "token_reread"}
    /\ tasks'[t].pc = "idle"

\* C21 as stated: when get_valid_token calls refresh concurrently, once all
\* have returned the cache holds the token the server issued last, and each
\* call returns a token that an exchange produced.
C21_RefreshKeepsLastIssued ==
    [][/\ (Quiescent /\ op.name = "exchange") => copilot_token = Some(LastIssued)
       /\ \A t \in Tasks :
             TokenReturned(t)
                => /\ IsSome(copilot_token)
                   /\ copilot_token.v.expires_at \in ExpiryValues]_vars

\* the half of C21 that holds: each call returns a token of an exchange
EachCallerGetsExchangedToken ==
    [][\A t \in Tasks :
          TokenReturned(t)
             => /\ IsSome(copilot_token)
                /\ copilot_token.v.expires_at \in ExpiryValues]_vars

----------------------------------------------------------------------------
(* The commands under fair scheduling.  No future is dropped; a command    *)
(* that can take a step takes one in the end.  Strong fairness stands for  *)
(* three things the runtime and the claim provide: the executor polls a    *)
(* task that was woken, every request gets a response, and tokio's RwLock  *)
(* serves its waiters in the order they came, so that a write() cannot be  *)
(* overtaken for ever by read()s that come after it.  With two commands a  *)
(* waiting write() delays no read(): the other command is the one holding  *)
(* the lock, and no command takes a lock it holds a guard of.  The answers *)
(* are all the kinds of answer, with one token and one login for the       *)
(* content.                                                                *)

LiveOAuthResponses == {r \in OAuthResponses : r.access_token \in {None, Some("gh1")}}
LiveUserResponses == {r \in UserResponses : r.login \in {"", "alice"}}
LiveTokenResponses == {r \in TokenResponses : r.token \in {"", "jwt1"}}

StartAny == StartCommandOf(Commands, None)
PollReply == PollResponseFrom(LiveOAuthResponses)
UserReply == UserRespondedFrom(LiveUserResponses)
ExchangeReply == ExchangeRespondedFrom(LiveTokenResponses, FALSE)

NextLive ==
    \/ StartAny
    \/ PollReply
    \/ PollStore
    \/ UserRead
    \/ UserReply
    \/ UserStore
    \/ ExchangeRead
    \/ ExchangeReply
    \/ ExchangeStore
    \/ SaveLock
    \/ SaveWrite
    \/ TokenCheck
    \/ TokenReread
    \/ StatusLock
    \/ StatusReturn
    \/ ClearField
    \/ ClearFile
    \/ UsageRead
    \/ UsageResponded

\* a step of the command task t runs
RunStep(t) == InFlight(t) /\ NextLive /\ tasks'[t].pc # tasks[t].pc

SpecLive == Init /\ [][NextLive]_vars /\ \A t \in Tasks : SF_vars(RunStep(t))

NoCircularWait ==
    (\E t \in Tasks : InFlight(t))
       => \E t \in Tasks :
             /\ InFlight(t)
             /\ ~(tasks[t].pc \in WritePcs /\ ~CanWrite(t, Acquiring(tasks[t].pc)))

====
